---- MODULE Spec2Model ----
(***************************************************************************)
(* Model of the otel-action collector: job resolution (findCurrentJob),    *)
(* step normalisation (parseSteps), conclusion inference                   *)
(* (inferJobConclusion), the metrics record (buildMetricsObject,           *)
(* collectMetrics) and the race of several matrix legs resolving their     *)
(* job against one shared job list; and of its exporter: the samples       *)
(* recordMetrics records and the spans recordTraces emits for the record   *)
(* the post-action builds.                                                 *)
(*                                                                         *)
(* Conventions.  A JavaScript string is a TLA+ string, except a job name,  *)
(* which is a sequence of one-character strings so that startsWith is      *)
(* computed.  null and undefined string values are the sentinels NullStr   *)
(* and UndefStr.  A nullable timestamp is a sequence of length at most     *)
(* one: <<>> is null, <<t>> is the instant t (milliseconds, t > 0); the    *)
(* API's ISO string and the Date made from it are both written <<t>>.      *)
(* <<0>> is a string Date cannot parse and <<-1>> the Invalid Date object  *)
(* it gives.                                                               *)
(***************************************************************************)
EXTENDS Integers, Sequences, FiniteSets, TLC

VARIABLES
    jobs,       \* the job list the API returns for the run (jobs.jobs)
    env,        \* process.env: GITHUB_JOB, RUNNER_NAME
    now,        \* the instant new Date() yields during the call
    repo,       \* the repos.get response: <<size>>, or <<>> when the call fails
    argConclusion, \* inferJobConclusion's argument jobConclusion
    argSteps,   \* inferJobConclusion's argument steps (parsed steps)
    pc,         \* the call about to run; "found", "inferred", "collected" after it
    out,        \* what the call returned or threw
    leg,        \* matrix run: per leg, its real phase and the runner it got
    resolved,   \* matrix run: per leg, the id its exporter resolved (0: not yet)
    clock,      \* matrix run: the instant the next started_at takes
    artifacts,  \* the listWorkflowRunArtifacts response the post-action reads
    inputs,     \* the action's inputs and what its collaborators answer
    locals      \* run(): its local variables meterProvider, tracerProvider

vars == <<jobs, env, now, repo, argConclusion, argSteps, pc, out, leg, resolved, clock,
          artifacts, inputs, locals>>

----------------------------------------------------------------------------
(* Bounds of the model                                                     *)

\* longest job list enumerated for findCurrentJob
MaxJobs == 2
\* longest step list enumerated for inferJobConclusion / collectMetrics
MaxSteps == 3
\* largest instant a timestamp takes
MaxTime == 2
\* longest step list of the job collectMetrics reads
MaxCollectSteps == 2
\* number of matrix legs in the concurrent run
NumLegs == 2
\* longest artifact list the run's API response carries
MaxArtifacts == 2
\* largest size_in_bytes of an artifact
MaxBytes == 1
\* longest workflow path and longest git ref of a workflow reference
MaxPartLen == 2

----------------------------------------------------------------------------
(* JavaScript values                                                       *)

NullStr == "<null>"
UndefStr == "<undefined>"

\* if (x): a string is truthy unless it is null, undefined or empty
Truthy(s) == s \notin {NullStr, UndefStr, ""}

\* a nullable timestamp: present?  / its value
Present(t) == Len(t) = 1
TimeOf(t) == t[1]

\* a non-empty timestamp string that Date cannot parse
MalformedDate == <<0>>
\* the Date object made from it: an object (truthy) whose time value is NaN
InvalidDate == <<-1>>
\* NaN, kept apart from every number the bounds allow; a comparison with it
\* is written as JavaScript evaluates it (always false)
NaN == -1000000

\* new Date(s) for a non-empty string s
newDate(s) == IF s = MalformedDate THEN InvalidDate ELSE s

\* a - b of two Date objects: the difference of their time values
DateDiff(a, b) ==
    IF a = InvalidDate \/ b = InvalidDate THEN NaN ELSE TimeOf(a) - TimeOf(b)

\* x > 0 of a number that may be NaN
Positive(x) == x # NaN /\ x > 0

\* String.prototype.startsWith
StartsWith(s, p) == Len(s) >= Len(p) /\ SubSeq(s, 1, Len(p)) = p

\* Array.prototype.find over the positions that satisfy the callback: the
\* first of them, 0 if there is none
FindIndex(matching) ==
    IF matching = {} THEN 0
    ELSE CHOOSE i \in matching : \A k \in matching : i <= k

----------------------------------------------------------------------------
(* Job names                                                               *)

BaseName == <<"b">>
LegX == <<"b", " ", "(", "x", ")">>
LegY == <<"b", " ", "(", "y", ")">>
\* starts with the base name but not with "<base> ("
NearName == <<"b", "(", "x", ")">>
OtherName == <<"o">>

LegNames == <<LegX, LegY, <<"b", " ", "(", "z", ")">>, <<"b", " ", "(", "w", ")">>>>

JobStatuses == {"queued", "in_progress", "completed"}
RunnerNames == {"r1", "r2"}
Times == {<<>>} \cup {<<t>> : t \in 1..MaxTime}

----------------------------------------------------------------------------
(* Raw records of the workflow-run API                                     *)

\* one step of a job, as the API lists it
RawStep(number, conclusion, started_at, completed_at) ==
    [name |-> number, number |-> number, status |-> "completed",
     conclusion |-> conclusion, started_at |-> started_at,
     completed_at |-> completed_at]

\* one job of the run, as the API lists it
RawJob(id, name, status, conclusion, started_at, completed_at, runner_name, steps) ==
    [id |-> id, name |-> name, status |-> status, conclusion |-> conclusion,
     started_at |-> started_at, completed_at |-> completed_at,
     runner_name |-> runner_name, steps |-> steps, labels |-> <<>>]

\* what jobs[0] is on an empty list
UndefinedJob == RawJob(0, <<>>, UndefStr, UndefStr, <<>>, <<>>, UndefStr, <<>>)

\* a call's outcome: a returned value, or a thrown Error with its message
Return(v) == [ok |-> TRUE, value |-> v, error |-> ""]
Throw(msg) == [ok |-> FALSE, value |-> UndefinedJob, error |-> msg]

NoJobsError == "No jobs found for this workflow run"

----------------------------------------------------------------------------
(* findCurrentJob                                                          *)

\* mutant of exactMatch: a prefix test where the code tests equality
exactMatchByPrefix(jobList, currentJobName) ==
    FindIndex({i \in 1..Len(jobList) : StartsWith(jobList[i].name, currentJobName)})

\* jobs.find(job => job.name === currentJobName): its index, 0 if none
exactMatch(jobList, currentJobName) ==
    FindIndex({i \in 1..Len(jobList) : jobList[i].name = currentJobName})

\* jobs.filter(job => job.name.startsWith(currentJobName + ' ('))
matrixJobs(jobList, currentJobName) ==
    LET IsLeg(j) == StartsWith(j.name, currentJobName \o <<" ", "(">>)
    IN  SelectSeq(jobList, IsLeg)

\* mutant of jobByRunner: the runner branch left out
jobByRunnerSkipped(legs, runnerName) == 0

\* the runner branch: with RUNNER_NAME set, matrixJobs.find(j => j.runner_name
\* === runnerName); index in matrixJobs, 0 if RUNNER_NAME is unset or none matches
jobByRunner(legs, runnerName) ==
    IF Truthy(runnerName)
    THEN FindIndex({i \in 1..Len(legs) : legs[i].runner_name = runnerName})
    ELSE 0

\* matrixJobs.find(j => j.status === 'in_progress'): its index, 0 if none
inProgress(legs) ==
    FindIndex({i \in 1..Len(legs) : legs[i].status = "in_progress"})

\* a.started_at ? new Date(a.started_at) : new Date(0), as milliseconds
startTime(j) == IF Present(j.started_at) THEN TimeOf(j.started_at) ELSE 0

\* one insertion of the stable sort: x goes behind every element the
\* comparator (b, a) => bTime - aTime does not put after it
RECURSIVE InsertByStart(_, _)
InsertByStart(sorted, x) ==
    IF sorted = <<>> THEN <<x>>
    ELSE IF startTime(Head(sorted)) >= startTime(x)
         THEN <<Head(sorted)>> \o InsertByStart(Tail(sorted), x)
         ELSE <<x>> \o sorted

RECURSIVE sortByStart(_)

\* mutant of sortByStart: the legs left in list order
sortByStartUnsorted(legs) == legs

\* matrixJobs.sort(...): Array.prototype.sort is stable; most recent first
sortByStart(legs) ==
    IF legs = <<>> THEN <<>>
    ELSE InsertByStart(sortByStart(SubSeq(legs, 1, Len(legs) - 1)), legs[Len(legs)])

\* mutant of firstJob: jobs[0] returned without the check for a missing job
firstJobUnchecked(jobList) ==
    Return(IF Len(jobList) = 0 THEN UndefinedJob ELSE jobList[1])

\* mutant of firstJob: the last job where the code takes the first
lastJob(jobList) ==
    IF Len(jobList) = 0 THEN Throw(NoJobsError) ELSE Return(jobList[Len(jobList)])

\* the fallback: jobs[0], or the Error when there is none
firstJob(jobList) ==
    IF Len(jobList) = 0 THEN Throw(NoJobsError) ELSE Return(jobList[1])

findCurrentJob(jobList, currentJobName, runnerName) ==
    LET exact == exactMatch(jobList, currentJobName)
        legs == matrixJobs(jobList, currentJobName)
        byRunner == jobByRunner(legs, runnerName)
        running == inProgress(legs)
    IN  IF exact # 0 THEN Return(jobList[exact])
        ELSE IF Len(legs) = 1 THEN Return(legs[1])
        ELSE IF Len(legs) > 1
             THEN IF byRunner # 0 THEN Return(legs[byRunner])
                  ELSE IF running # 0 THEN Return(legs[running])
                  ELSE Return(sortByStart(legs)[1])
        ELSE firstJob(jobList)

----------------------------------------------------------------------------
(* fetchRepositorySize, parseSteps, calculateJobDuration                   *)

\* the repos.get response is <<size>>, or <<>> when the call fails;
\* a failure is caught and gives null
fetchRepositorySize(repoResponse) == repoResponse

\* one normalised step
parseStep(step) ==
    LET startedAt == IF Present(step.started_at)
                     THEN newDate(step.started_at) ELSE <<>>
        completedAt == IF Present(step.completed_at)
                       THEN newDate(step.completed_at) ELSE <<>>
    IN  [name |-> step.name, status |-> step.status,
         conclusion |-> step.conclusion, number |-> step.number,
         startedAt |-> startedAt, completedAt |-> completedAt,
         durationMs |-> IF Present(startedAt) /\ Present(completedAt)
                        THEN DateDiff(completedAt, startedAt)
                        ELSE 0]

\* (rawSteps || []).map(...)
parseSteps(rawSteps) == [i \in 1..Len(rawSteps) |-> parseStep(rawSteps[i])]

\* mutant of calculateJobDuration: a missing completed_at is not replaced by
\* the current instant, the job is taken to end when it started
calculateJobDurationNoNow(job, nowPair) ==
    LET jobStartedAt == IF Present(job.started_at)
                        THEN TimeOf(job.started_at) ELSE nowPair[1]
        jobCompletedAt == IF Present(job.completed_at)
                          THEN TimeOf(job.completed_at) ELSE jobStartedAt
    IN  [jobStartedAt |-> jobStartedAt, jobCompletedAt |-> jobCompletedAt,
         jobDurationMs |-> jobCompletedAt - jobStartedAt]

\* nowPair: what the first and the second new Date() of the call yield
calculateJobDuration(job, nowPair) ==
    LET jobStartedAt == IF Present(job.started_at)
                        THEN TimeOf(job.started_at) ELSE nowPair[1]
        jobCompletedAt == IF Present(job.completed_at)
                          THEN TimeOf(job.completed_at) ELSE nowPair[2]
    IN  [jobStartedAt |-> jobStartedAt, jobCompletedAt |-> jobCompletedAt,
         jobDurationMs |-> jobCompletedAt - jobStartedAt]

----------------------------------------------------------------------------
(* inferJobConclusion                                                      *)

\* mutant of hasValidConclusion: the early return left out
hasValidConclusionNever(jobConclusion) == FALSE

\* jobConclusion && jobConclusion !== 'unknown'
hasValidConclusion(jobConclusion) ==
    Truthy(jobConclusion) /\ jobConclusion # "unknown"

\* steps.filter(s => s.conclusion !== null)
completedSteps(steps) ==
    LET Concluded(s) == s.conclusion # NullStr
    IN  SelectSeq(steps, Concluded)

\* mutant of hasFailure: only the first completed step is looked at
hasFailureFirstOnly(completed) ==
    Len(completed) > 0 /\ completed[1].conclusion = "failure"

\* completedSteps.some(s => s.conclusion === 'failure')
hasFailure(completed) ==
    \E i \in 1..Len(completed) : completed[i].conclusion = "failure"

\* mutant of hasCancelled: the other spelling of the conclusion
hasCancelledMisspelt(completed) ==
    \E i \in 1..Len(completed) : completed[i].conclusion = "canceled"

\* completedSteps.some(s => s.conclusion === 'cancelled')
hasCancelled(completed) ==
    \E i \in 1..Len(completed) : completed[i].conclusion = "cancelled"

\* mutant of allSucceeded: every() alone, which an empty list satisfies
allSucceededVacuous(completed) ==
    \A i \in 1..Len(completed) : completed[i].conclusion \in {"success", "skipped"}

\* completedSteps.length > 0 && completedSteps.every(success or skipped)
allSucceeded(completed) ==
    /\ Len(completed) > 0
    /\ \A i \in 1..Len(completed) : completed[i].conclusion \in {"success", "skipped"}

inferJobConclusion(jobConclusion, steps) ==
    LET completed == completedSteps(steps)
    IN  IF hasValidConclusion(jobConclusion) THEN jobConclusion
        ELSE IF hasFailure(completed) THEN "failure"
        ELSE IF hasCancelled(completed) THEN "cancelled"
        ELSE IF allSucceeded(completed) THEN "success"
        ELSE "unknown"

----------------------------------------------------------------------------
(* buildMetricsObject, collectMetrics                                      *)

\* mutant of recordJob: the raw conclusion where the code stores the inferred one
recordJobRawConclusion(job, timing, jobConclusion) ==
    [name |-> job.name, id |-> job.id,
     status |-> IF Truthy(job.status) THEN job.status ELSE "in_progress",
     conclusion |-> job.conclusion,
     startedAt |-> timing.jobStartedAt,
     completedAt |-> timing.jobCompletedAt,
     durationMs |-> timing.jobDurationMs]

\* the job part of the record
recordJob(job, timing, jobConclusion) ==
    [name |-> job.name, id |-> job.id,
     status |-> IF Truthy(job.status) THEN job.status ELSE "in_progress",
     conclusion |-> jobConclusion,
     startedAt |-> timing.jobStartedAt,
     completedAt |-> timing.jobCompletedAt,
     durationMs |-> timing.jobDurationMs]

\* the fields of the record that the job list, the repository lookup,
\* RUNNER_OS and RUNNER_NAME decide
buildMetricsObject(job, timing, jobConclusion, steps, repoSize, environment) ==
    [job |-> recordJob(job, timing, jobConclusion),
     steps |-> steps,
     repository |-> [sizeKB |-> repoSize],
     runner |-> [os |-> IF Truthy(environment.RUNNER_OS)
                        THEN environment.RUNNER_OS ELSE "unknown",
                 name |-> IF Truthy(environment.RUNNER_NAME)
                          THEN environment.RUNNER_NAME ELSE NullStr,
                 labels |-> job.labels]]

\* the record of one run, or the Error findCurrentJob threw, rethrown
collectMetrics(jobList, environment, repoResponse, nowPair) ==
    LET found == findCurrentJob(jobList, environment.GITHUB_JOB, environment.RUNNER_NAME)
        job == found.value
        repoSize == fetchRepositorySize(repoResponse)
        steps == parseSteps(job.steps)
        timing == calculateJobDuration(job, nowPair)
        jobConclusion == inferJobConclusion(job.conclusion, steps)
    IN  IF ~found.ok THEN [ok |-> FALSE, error |-> found.error]
        ELSE [ok |-> TRUE,
              value |-> buildMetricsObject(job, timing, jobConclusion, steps,
                                           repoSize, environment)]

----------------------------------------------------------------------------
(* collectArtifacts and the artifact summary the post-action attaches      *)

\* the artifacts of the run, or [] when the API lists none or the call fails
collectArtifacts(response) ==
    IF response.ok /\ Len(response.artifacts) > 0
    THEN [i \in 1..Len(response.artifacts) |->
             [name |-> response.artifacts[i].name,
              sizeBytes |-> response.artifacts[i].size_in_bytes,
              expired |-> response.artifacts[i].expired]]
    ELSE <<>>

\* artifacts.reduce((sum, a) => sum + a.sizeBytes, 0)
RECURSIVE totalBytes(_)
totalBytes(list) ==
    IF Len(list) = 0 THEN 0
    ELSE totalBytes(SubSeq(list, 1, Len(list) - 1)) + list[Len(list)].sizeBytes

\* if (artifacts.length > 0) metrics.artifacts = {count, totalBytes, artifacts}
attachArtifacts(metrics, list) ==
    IF Len(list) > 0
    THEN [f \in DOMAIN metrics \cup {"artifacts"} |->
             IF f = "artifacts"
             THEN [count |-> Len(list), totalBytes |-> totalBytes(list),
                   artifacts |-> list]
             ELSE metrics[f]]
    ELSE metrics

----------------------------------------------------------------------------
(* estimateJobCost.  A runner label is the sequence of the parts its       *)
(* hyphens separate ("ubuntu-4-cores" is <<"ubuntu", "4", "cores">>), the  *)
(* null label is <<>>.  Prices are in 1/1000 USD per minute and a cost is  *)
(* price * durationMs, that is, in units of 1/60,000,000 USD, so that      *)
(* every value stays an integer.                                           *)

\* standardPricing[runnerOS] || 0
standardPricing(runnerOS) ==
    CASE runnerOS = "Linux" -> 8
      [] runnerOS = "Windows" -> 16
      [] runnerOS = "macOS" -> 80
      [] OTHER -> 0

\* largerRunnerPricing[coreSize] && largerRunnerPricing[coreSize][runnerOS],
\* 0 when either lookup is undefined
largerRunnerPricing(cores, runnerOS) ==
    LET linux == CASE cores = "2" -> 16 [] cores = "4" -> 32 [] cores = "8" -> 64
                   [] cores = "16" -> 128 [] cores = "32" -> 256
                   [] cores = "64" -> 512 [] OTHER -> 0
    IN  CASE runnerOS = "Linux" -> linux
          [] runnerOS = "Windows" -> 2 * linux
          [] OTHER -> 0

\* the parts of a label that are digit strings
DigitParts == {"2", "3", "4", "8", "16", "32", "64"}

\* runnerLabel.match(/(\d+)-cores?/): the digits captured, NullStr when the
\* label does not match
coresMatch(runnerLabel) ==
    LET at == { i \in 1..(Len(runnerLabel) - 1) :
                  /\ runnerLabel[i] \in DigitParts
                  /\ runnerLabel[i + 1] \in {"core", "cores"} }
    IN  IF at = {} THEN NullStr ELSE runnerLabel[FindIndex(at)]

estimateJobCost(runnerOS, runnerLabel, durationMs) ==
    LET cores == IF Len(runnerLabel) > 0 THEN coresMatch(runnerLabel) ELSE NullStr
        pricePerMinute ==
            IF cores # NullStr /\ largerRunnerPricing(cores, runnerOS) # 0
            THEN largerRunnerPricing(cores, runnerOS)
            ELSE standardPricing(runnerOS)
    IN  pricePerMinute * durationMs

----------------------------------------------------------------------------
(* recordMetrics: the samples it records, in the order of the record calls *)

\* one histogram.record / gauge.record call
Sample(metricPrefix, instrument, value, attributes) ==
    [name |-> <<metricPrefix, instrument>>, value |-> value, attributes |-> attributes]

\* the attributes of the job-level samples that the job decides
jobAttributes(metrics) ==
    [jobName |-> metrics.job.name, jobStatus |-> metrics.job.status,
     jobConclusion |-> IF Truthy(metrics.job.conclusion)
                       THEN metrics.job.conclusion ELSE "unknown"]

\* mutant of jobDurationSamples: a zero duration is not recorded
jobDurationSamplesNonZero(metrics, metricPrefix) ==
    IF metrics.job.durationMs # 0
    THEN <<Sample(metricPrefix, "job.duration", metrics.job.durationMs,
                  jobAttributes(metrics))>>
    ELSE <<>>

\* jobDurationHistogram.record(metrics.job.durationMs, jobAttributes)
jobDurationSamples(metrics, metricPrefix) ==
    <<Sample(metricPrefix, "job.duration", metrics.job.durationMs,
             jobAttributes(metrics))>>

\* if (metrics.repository.sizeKB) repoSizeGauge.record(...)
repoSizeSamples(metrics, metricPrefix) ==
    LET sizeKB == metrics.repository.sizeKB
    IN  IF Present(sizeKB) /\ TimeOf(sizeKB) # 0
        THEN <<Sample(metricPrefix, "repo.size", TimeOf(sizeKB),
                      [repository |-> "repo"])>>
        ELSE <<>>

\* if (metrics.runner && metrics.runner.os) costHistogram.record(...)
costSamples(metrics, metricPrefix) ==
    LET runnerLabel == IF Len(metrics.runner.labels) > 0
                       THEN metrics.runner.labels[1] ELSE <<>>
    IN  IF Truthy(metrics.runner.os)
        THEN <<Sample(metricPrefix, "job.estimated_cost",
                      estimateJobCost(metrics.runner.os, runnerLabel,
                                      metrics.job.durationMs),
                      jobAttributes(metrics))>>
        ELSE <<>>

\* mutant of artifactSamples: one sample for the whole summary
artifactSamplesTotal(metrics, metricPrefix) ==
    IF "artifacts" \in DOMAIN metrics /\ metrics.artifacts.count > 0
    THEN <<Sample(metricPrefix, "artifact.size", metrics.artifacts.totalBytes,
                  [artifactName |-> metrics.artifacts.artifacts[1].name])>>
    ELSE <<>>

\* if (metrics.artifacts && metrics.artifacts.count > 0)
\*   for (const artifact of metrics.artifacts.artifacts) record(...)
artifactSamples(metrics, metricPrefix) ==
    IF "artifacts" \in DOMAIN metrics /\ metrics.artifacts.count > 0
    THEN [i \in 1..Len(metrics.artifacts.artifacts) |->
             Sample(metricPrefix, "artifact.size",
                    metrics.artifacts.artifacts[i].sizeBytes,
                    [artifactName |-> metrics.artifacts.artifacts[i].name])]
    ELSE <<>>

RECURSIVE stepSamples(_, _)

\* mutant of stepSamples: every step is recorded, whatever its duration
stepSamplesAll(steps, metricPrefix) ==
    [i \in 1..Len(steps) |->
        Sample(metricPrefix, "step.duration", steps[i].durationMs,
               [stepName |-> steps[i].name, stepNumber |-> steps[i].number])]

\* for (const step of metrics.steps) if (step.durationMs > 0) record(...)
stepSamples(steps, metricPrefix) ==
    IF Len(steps) = 0 THEN <<>>
    ELSE LET step == steps[Len(steps)]
             before == stepSamples(SubSeq(steps, 1, Len(steps) - 1), metricPrefix)
         IN  IF Positive(step.durationMs)
             THEN Append(before,
                         Sample(metricPrefix, "step.duration", step.durationMs,
                                [stepName |-> step.name, stepNumber |-> step.number]))
             ELSE before

recordMetrics(metrics, metricPrefix) ==
    jobDurationSamples(metrics, metricPrefix)
        \o repoSizeSamples(metrics, metricPrefix)
        \o costSamples(metrics, metricPrefix)
        \o artifactSamples(metrics, metricPrefix)
        \o stepSamples(metrics.steps, metricPrefix)

----------------------------------------------------------------------------
(* recordTraces: the operations it applies to the tracer and to the spans, *)
(* in order.  Span 0 is the job span, span i the span of the i-th step.    *)

\* tracer.startSpan(name, {startTime, attributes}, parentContext)
StartSpan(span, name, start, parent) ==
    [op |-> "startSpan", span |-> span, name |-> name, time |-> start,
     parent |-> parent, code |-> 0]

\* span.setStatus({code, message})
SetStatus(span, code, message) ==
    [op |-> "setStatus", span |-> span, name |-> message, time |-> <<>>,
     parent |-> "", code |-> code]

\* span.recordException(new Error(message))
RecordException(span, message) ==
    [op |-> "recordException", span |-> span, name |-> message, time |-> <<>>,
     parent |-> "", code |-> 0]

\* span.end(endTime)
EndSpan(span, endTime) ==
    [op |-> "end", span |-> span, name |-> <<>>, time |-> endTime,
     parent |-> "", code |-> 0]

\* SpanStatusCode.ERROR
StatusError == 2

\* if (d) of a Date object: an object is truthy, whatever instant it holds
DateTruthy(d) == d \in Int

\* mutant of hasBothTimestamps: only the start of the step is asked for
hasStartTimestamp(step) == Present(step.startedAt)

\* step.startedAt && step.completedAt
hasBothTimestamps(step) == Present(step.startedAt) /\ Present(step.completedAt)

\* mutant of stepFailed: every step that did not succeed counts as failed
stepNotSucceeded(step) == step.conclusion # "success"

\* step.conclusion === 'failure'
stepFailed(step) == step.conclusion = "failure"

\* the body of the loop for the i-th step
stepSpanOps(step, i) ==
    IF hasBothTimestamps(step)
    THEN <<StartSpan(i, <<"Step: ", step.name>>, step.startedAt, "jobContext")>>
         \o (IF stepFailed(step)
             THEN <<SetStatus(i, StatusError, <<"Step failed">>),
                    RecordException(i, <<"Step \"", step.name, "\" failed">>)>>
             ELSE <<>>)
         \o <<EndSpan(i, step.completedAt)>>
    ELSE <<>>

\* for (const step of metrics.steps): the first n steps
RECURSIVE stepsSpanOps(_, _)
stepsSpanOps(steps, n) ==
    IF n = 0 THEN <<>>
    ELSE stepsSpanOps(steps, n - 1) \o stepSpanOps(steps[n], n)

\* mutant of jobSpanEndOps: the job span is ended first and given its status
\* afterwards
jobSpanEndOpsStatusLast(metrics) ==
    IF DateTruthy(metrics.job.completedAt)
    THEN <<EndSpan(0, <<metrics.job.completedAt>>)>>
         \o (IF metrics.job.conclusion = "failure"
             THEN <<SetStatus(0, StatusError, <<"Job failed">>)>> ELSE <<>>)
    ELSE <<>>

\* if (metrics.job.completedAt) { if (failure) setStatus; jobSpan.end(...) }
jobSpanEndOps(metrics) ==
    IF DateTruthy(metrics.job.completedAt)
    THEN (IF metrics.job.conclusion = "failure"
          THEN <<SetStatus(0, StatusError, <<"Job failed">>)>> ELSE <<>>)
         \o <<EndSpan(0, <<metrics.job.completedAt>>)>>
    ELSE <<>>

recordTraces(metrics) ==
    <<StartSpan(0, <<"Job: ", metrics.job.name>>, <<metrics.job.startedAt>>, "active")>>
        \o stepsSpanOps(metrics.steps, Len(metrics.steps))
        \o jobSpanEndOps(metrics)

----------------------------------------------------------------------------
(* getConfig and the repository check it makes before reading a key file   *)

\* checkRepositoryVisibility: data.visibility || (data.private ? 'private' :
\* 'public'), null when the API call fails
checkRepositoryVisibility(token, response) ==
    IF response.ok
    THEN IF Truthy(response.visibility) THEN response.visibility
         ELSE IF response.private THEN "private" ELSE "public"
    ELSE NullStr

RefusePublicError == "Refusing to use service account key file in public repository"
CannotReadKeyError == "Cannot read service account key file"
NoProjectError == "gcp-project-id is required"
ExcessivePermissionsError == "Service account has excessive permissions - refusing to use"

\* mutant of validateRepositorySecurity: the repository is looked up with or
\* without a token
validateRepositorySecurityAnyToken(token, response) ==
    IF checkRepositoryVisibility(token, response) = "public"
    THEN RefusePublicError ELSE ""

\* validateRepositorySecurity: the message of the Error it throws, "" when it
\* returns (the repository is private or internal, or could not be looked up)
validateRepositorySecurity(token, response) ==
    LET repoVisibility == IF Truthy(token)
                          THEN checkRepositoryVisibility(token, response)
                          ELSE NullStr
    IN  IF repoVisibility = "public" THEN RefusePublicError ELSE ""

\* parseServiceAccountKey: the project and the e-mail of the key, nulls when
\* the file is not JSON
parseServiceAccountKey(serviceAccountKey) ==
    IF serviceAccountKey = "key-json"
    THEN [keyData |-> TRUE, projectId |-> "key-project", email |-> "sa@key-project"]
    ELSE [keyData |-> FALSE, projectId |-> NullStr, email |-> NullStr]

\* the outcome of getConfig: the config returned or the Error thrown, and
\* whether the key file was read on the way
ConfigOutcome(error, keyFileRead, config) ==
    [ok |-> error = "", error |-> error, keyFileRead |-> keyFileRead, config |-> config]

NoConfig == [gcpProjectId |-> NullStr, gcpServiceAccountKey |-> NullStr,
             metricPrefix |-> NullStr, failOnError |-> FALSE]

getConfig(in) ==
    LET usesKeyFile == Truthy(in.keyFile)
        refused == IF usesKeyFile
                   THEN validateRepositorySecurity(in.token, in.repoResponse) ELSE ""
        keyFileRead == usesKeyFile /\ refused = ""
        serviceAccountKey == IF keyFileRead /\ in.keyReadable
                             THEN in.keyContent ELSE NullStr
        parsed == IF Truthy(serviceAccountKey)
                  THEN parseServiceAccountKey(serviceAccountKey)
                  ELSE [keyData |-> FALSE, projectId |-> NullStr, email |-> NullStr]
        fromKey == IF Truthy(in.projectInput) THEN in.projectInput
                   ELSE IF Truthy(parsed.projectId) THEN parsed.projectId
                   ELSE NullStr
        gcpProjectId == IF Truthy(fromKey) THEN fromKey ELSE in.detectedProject
        config == [gcpProjectId |-> gcpProjectId,
                   gcpServiceAccountKey |-> serviceAccountKey,
                   metricPrefix |-> IF Truthy(in.metricPrefix)
                                    THEN in.metricPrefix ELSE "github.actions",
                   failOnError |-> in.failOnError]
    IN  IF refused # "" THEN ConfigOutcome(refused, FALSE, NoConfig)
        ELSE IF usesKeyFile /\ ~in.keyReadable
             THEN ConfigOutcome(CannotReadKeyError, TRUE, NoConfig)
        ELSE IF ~Truthy(gcpProjectId)
             THEN ConfigOutcome(NoProjectError, keyFileRead, NoConfig)
        ELSE IF parsed.keyData /\ Truthy(parsed.email) /\ in.permissions = "excessive"
             THEN ConfigOutcome(ExcessivePermissionsError, keyFileRead, NoConfig)
        ELSE ConfigOutcome("", keyFileRead, config)

----------------------------------------------------------------------------
(* extractWorkflowPath and the workflow name of the record.  A workflow    *)
(* name or reference is a sequence of one-character strings; the empty     *)
(* sequence is the empty (or missing) string and the null result.          *)

\* workflowRef.match(/^[^/]+\/[^/]+\/(.+)@/)[1]: the text between the second
\* slash and the last "@" behind it, <<>> (null) when the reference is
\* empty or does not match
extractWorkflowPath(workflowRef) ==
    LET slashes == { i \in 1..Len(workflowRef) : workflowRef[i] = "/" }
        first == FindIndex(slashes)
        second == FindIndex(slashes \ {first})
        ats == { i \in (second + 2)..Len(workflowRef) : workflowRef[i] = "@" }
        last == CHOOSE i \in ats : \A k \in ats : k <= i
    IN  IF Cardinality(slashes) < 2 THEN <<>>
        ELSE IF first = 1 \/ second = first + 1 \/ ats = {} THEN <<>>
        ELSE SubSeq(workflowRef, second + 1, last - 1)

\* context.workflow || extractWorkflowPath(context.workflow_ref)
\*                  || context.workflow_ref
workflowName(context) ==
    IF context.workflow # <<>> THEN context.workflow
    ELSE IF extractWorkflowPath(context.workflow_ref) # <<>>
         THEN extractWorkflowPath(context.workflow_ref)
    ELSE context.workflow_ref

----------------------------------------------------------------------------
(* Inputs                                                                  *)

\* the name of the job at position i of the list: the base name itself, the
\* i-th matrix leg "<base> (<param>)", or a name that matches neither
NameOf(kind, i) ==
    CASE kind = "exact" -> BaseName
      [] kind = "leg" -> LegNames[i]
      [] kind = "near" -> NearName
      [] OTHER -> OtherName

\* the job list with the fields f gives; a job's id is its position in the list
JobList(f) ==
    [i \in 1..Len(f) |->
        RawJob(i, NameOf(f[i].kind, i), f[i].status, f[i].conclusion,
               f[i].started_at, f[i].completed_at, f[i].runner_name, f[i].steps)]

\* jobs as findCurrentJob reads them: name, status, started_at, runner_name
ResolveJobSpace ==
    [kind : {"exact", "leg", "other"},
     status : JobStatuses,
     conclusion : {NullStr},
     started_at : Times,
     completed_at : {<<>>},
     runner_name : {NullStr} \cup RunnerNames,
     steps : {<<>>}]

ResolveEnvs ==
    [GITHUB_JOB : {BaseName}, RUNNER_NAME : {UndefStr} \cup RunnerNames]

\* conclusions the API gives a job (null while it runs) and the sentinel
RawConclusions ==
    {NullStr, "unknown", "success", "failure", "cancelled", "skipped",
     "timed_out", "neutral"}

\* conclusions the API gives a step (null while it is pending)
StepConclusions ==
    {NullStr, "success", "failure", "cancelled", "skipped", "neutral"}

\* the raw step lists of length at most n, timestamps absent
RawStepsOf(c) == [i \in 1..Len(c) |-> RawStep(i, c[i], <<>>, <<>>)]

\* values of the variables a specification does not use
Idle == "idle"

----------------------------------------------------------------------------
(* SpecResolve: findCurrentJob applied to every job list of the bounds     *)

InitResolve ==
    /\ \E k \in 0..MaxJobs : \E f \in [1..k -> ResolveJobSpace] : jobs = JobList(f)
    /\ env \in ResolveEnvs
    /\ pc = "findCurrentJob"
    /\ inputs = Idle /\ locals = Idle
    /\ out = Idle /\ artifacts = Idle
    /\ now = Idle /\ repo = Idle /\ argConclusion = Idle /\ argSteps = Idle
    /\ leg = Idle /\ resolved = Idle /\ clock = Idle

RunFindCurrentJob ==
    /\ pc = "findCurrentJob"
    /\ out' = findCurrentJob(jobs, env.GITHUB_JOB, env.RUNNER_NAME)
    /\ pc' = "found"
    /\ UNCHANGED <<inputs, locals, artifacts, jobs, env, now, repo, argConclusion, argSteps, leg, resolved, clock>>

SpecResolve == InitResolve /\ [][RunFindCurrentJob]_vars

----------------------------------------------------------------------------
(* SpecInfer: inferJobConclusion applied to every raw conclusion and every *)
(* step list of the bounds                                                 *)

InitInfer ==
    /\ argConclusion \in RawConclusions
    /\ \E k \in 0..MaxSteps : \E c \in [1..k -> StepConclusions] :
           argSteps = parseSteps(RawStepsOf(c))
    /\ pc = "inferJobConclusion"
    /\ inputs = Idle /\ locals = Idle
    /\ out = Idle /\ artifacts = Idle
    /\ jobs = Idle /\ env = Idle /\ now = Idle /\ repo = Idle
    /\ leg = Idle /\ resolved = Idle /\ clock = Idle

RunInferJobConclusion ==
    /\ pc = "inferJobConclusion"
    /\ out' = inferJobConclusion(argConclusion, argSteps)
    /\ pc' = "inferred"
    /\ UNCHANGED <<inputs, locals, artifacts, jobs, env, now, repo, argConclusion, argSteps, leg, resolved, clock>>

SpecInfer == InitInfer /\ [][RunInferJobConclusion]_vars

----------------------------------------------------------------------------
(* SpecCollect: collectMetrics on an empty list, on one job, and on one    *)
(* job with a sibling matrix leg before or after it                        *)

\* the job whose conclusion, timestamps and steps take every value
CollectJobSpace ==
    [kind : {"exact", "leg", "near"},
     status : {"in_progress"},
     conclusion : RawConclusions,
     started_at : {<<>>, <<1>>},
     completed_at : {<<>>, <<MaxTime>>},
     runner_name : {"r1"},
     steps : { RawStepsOf(c) :
               c \in UNION { [1..k -> StepConclusions] : k \in 0..MaxCollectSteps } }]

\* a sibling leg of the same run, on another runner
SiblingJob ==
    [kind |-> "leg", status |-> "in_progress", conclusion |-> NullStr,
     started_at |-> <<1>>, completed_at |-> <<>>, runner_name |-> "r2",
     steps |-> RawStepsOf(<<"failure">>)]

CollectEnvs ==
    [GITHUB_JOB : {BaseName, OtherName}, RUNNER_NAME : {UndefStr, "r1"},
     RUNNER_OS : {"Linux"}]

InitCollect ==
    /\ \/ jobs = <<>>
       \/ \E j \in CollectJobSpace :
              jobs \in {JobList(<<j>>), JobList(<<SiblingJob, j>>),
                        JobList(<<j, SiblingJob>>)}
    /\ env \in CollectEnvs
    /\ repo \in {<<>>, <<0>>, <<1>>}
    /\ now \in {<<MaxTime, MaxTime>>, <<MaxTime, MaxTime + 1>>}
    /\ pc = "collectMetrics"
    /\ inputs = Idle /\ locals = Idle
    /\ out = Idle /\ artifacts = Idle
    /\ argConclusion = Idle /\ argSteps = Idle
    /\ leg = Idle /\ resolved = Idle /\ clock = Idle

RunCollectMetrics ==
    /\ pc = "collectMetrics"
    /\ out' = collectMetrics(jobs, env, repo, now)
    /\ pc' = "collected"
    /\ UNCHANGED <<inputs, locals, artifacts, jobs, env, now, repo, argConclusion, argSteps, leg, resolved, clock>>

SpecCollect == InitCollect /\ [][RunCollectMetrics]_vars

----------------------------------------------------------------------------
(* SpecMatrix: the legs of one matrix job, each running the exporter       *)
(* against the shared job list.  A leg starts on a free runner (the API    *)
(* then lists it in_progress with its start time), the API fills in its    *)
(* runner_name some time later, the leg's post-job hook resolves its job,  *)
(* the leg ends and the API lists it completed.                            *)

Legs == 1..NumLegs

QueuedLeg ==
    [kind |-> "leg", status |-> "queued", conclusion |-> NullStr,
     started_at |-> <<>>, completed_at |-> <<>>, runner_name |-> NullStr,
     steps |-> <<>>]

InitMatrix ==
    /\ jobs = JobList([l \in Legs |-> QueuedLeg])
    /\ env = [GITHUB_JOB |-> BaseName]
    /\ leg = [l \in Legs |-> [phase |-> "waiting", runner |-> NullStr]]
    /\ resolved = [l \in Legs |-> 0]
    /\ clock = 1
    /\ pc = "matrix"
    /\ inputs = Idle /\ locals = Idle
    /\ out = Idle /\ artifacts = Idle
    /\ now = Idle /\ repo = Idle /\ argConclusion = Idle /\ argSteps = Idle

\* a runner is busy while a leg it took has not ended
Busy(r) == \E k \in Legs : leg[k].runner = r /\ leg[k].phase \in {"running", "exported"}

\* leg l is picked up by runner r
StartLeg(l, r) ==
    /\ pc = "matrix"
    /\ leg[l].phase = "waiting"
    /\ ~Busy(r)
    /\ leg' = [leg EXCEPT ![l] = [phase |-> "running", runner |-> r]]
    /\ jobs' = [jobs EXCEPT ![l].status = "in_progress", ![l].started_at = <<clock>>]
    /\ clock' = IF clock < MaxTime THEN clock + 1 ELSE clock
    /\ UNCHANGED <<inputs, locals, artifacts, env, now, repo, argConclusion, argSteps, pc, out, resolved>>

\* the API fills in the runner_name of a started leg
ApiRunnerName(l) ==
    /\ pc = "matrix"
    /\ leg[l].phase # "waiting"
    /\ jobs[l].runner_name = NullStr
    /\ jobs' = [jobs EXCEPT ![l].runner_name = leg[l].runner]
    /\ UNCHANGED <<inputs, locals, artifacts, env, now, repo, argConclusion, argSteps, pc, out, leg, resolved, clock>>

\* the post-job hook of leg l: collectMetrics lists the jobs and calls
\* findCurrentJob with the leg's own GITHUB_JOB and RUNNER_NAME
RunExporter(l) ==
    /\ pc = "matrix"
    /\ leg[l].phase = "running"
    /\ LET found == findCurrentJob(jobs, env.GITHUB_JOB, leg[l].runner)
       IN  resolved' = [resolved EXCEPT ![l] = found.value.id]
    /\ leg' = [leg EXCEPT ![l].phase = "exported"]
    /\ UNCHANGED <<inputs, locals, artifacts, jobs, env, now, repo, argConclusion, argSteps, pc, out, clock>>

\* leg l ends and frees its runner
FinishLeg(l) ==
    /\ pc = "matrix"
    /\ leg[l].phase = "exported"
    /\ leg' = [leg EXCEPT ![l].phase = "done"]
    /\ UNCHANGED <<inputs, locals, artifacts, jobs, env, now, repo, argConclusion, argSteps, pc, out, resolved, clock>>

\* the API lists an ended leg as completed
ApiCompleted(l) ==
    /\ pc = "matrix"
    /\ leg[l].phase = "done"
    /\ jobs[l].status = "in_progress"
    /\ jobs' = [jobs EXCEPT ![l].status = "completed", ![l].conclusion = "success",
                            ![l].completed_at = <<clock>>]
    /\ UNCHANGED <<inputs, locals, artifacts, env, now, repo, argConclusion, argSteps, pc, out, leg, resolved, clock>>

NextMatrix ==
    \E l \in Legs :
        \/ \E r \in RunnerNames : StartLeg(l, r)
        \/ ApiRunnerName(l)
        \/ RunExporter(l)
        \/ FinishLeg(l)
        \/ ApiCompleted(l)

SpecMatrix == InitMatrix /\ [][NextMatrix]_vars

----------------------------------------------------------------------------
(* SpecSteps: parseSteps applied to every raw step list of the bounds, the *)
(* two timestamps of a step present in either order, absent or malformed   *)

RawTimes == Times \cup {MalformedDate}

StepTimeSpace == [started_at : RawTimes, completed_at : RawTimes]

\* the raw step list with the timestamps f gives
RawStepsTimed(f) ==
    [i \in 1..Len(f) |-> RawStep(i, "success", f[i].started_at, f[i].completed_at)]

InitSteps ==
    /\ \E k \in 0..MaxSteps : \E f \in [1..k -> StepTimeSpace] :
           argSteps = RawStepsTimed(f)
    /\ pc = "parseSteps"
    /\ inputs = Idle /\ locals = Idle
    /\ out = Idle /\ artifacts = Idle
    /\ jobs = Idle /\ env = Idle /\ now = Idle /\ repo = Idle
    /\ argConclusion = Idle
    /\ leg = Idle /\ resolved = Idle /\ clock = Idle

RunParseSteps ==
    /\ pc = "parseSteps"
    /\ out' = parseSteps(argSteps)
    /\ pc' = "parsed"
    /\ UNCHANGED <<inputs, locals, artifacts, jobs, env, now, repo, argConclusion, argSteps, leg,
                   resolved, clock>>

SpecSteps == InitSteps /\ [][RunParseSteps]_vars

----------------------------------------------------------------------------
(* SpecMetrics: the post-action's metric path.  collectMetrics builds the  *)
(* record, collectArtifacts' list is attached and recordMetrics records    *)
(* the samples.  Either the job (its timestamps, steps, labels), the       *)
(* runner OS and the repository size vary and the run has no artifact, or  *)
(* the artifact response varies for one fixed job.                         *)

\* config.metricPrefix, at its default
MetricPrefix == "github.actions"

UbuntuLatest == <<"ubuntu", "latest">>
Ubuntu4Cores == <<"ubuntu", "4", "cores">>
SelfHosted == <<"self", "hosted">>

\* job.labels: absent, a GitHub-hosted standard or larger runner, a
\* self-hosted runner
RunnerLabelLists == {<<>>, <<UbuntuLatest>>, <<Ubuntu4Cores>>, <<SelfHosted, <<"linux">>>>}

\* the timestamps of the steps of the exported job
MetricStepTimes ==
    [started_at : {<<>>, <<1>>, <<MaxTime>>},
     completed_at : {<<>>, <<1>>, <<MaxTime>>, MalformedDate}]

\* the exported job
MetricJob(started_at, completed_at, steps) ==
    [kind |-> "exact", status |-> "in_progress", conclusion |-> "success",
     started_at |-> started_at, completed_at |-> completed_at,
     runner_name |-> "r1", steps |-> steps]

MetricEnvs ==
    [GITHUB_JOB : {BaseName}, RUNNER_NAME : {"r1"},
     RUNNER_OS : {UndefStr, "Linux", "Windows", "macOS"}]

NoArtifacts == [ok |-> TRUE, artifacts |-> <<>>]
ArtifactsFailure == [ok |-> FALSE, artifacts |-> <<>>]

\* one artifact of the listWorkflowRunArtifacts response
RawArtifactSpace ==
    [name : {"a1", "a2"}, size_in_bytes : 0..MaxBytes, expired : BOOLEAN]

InitMetrics ==
    /\ \/ /\ \E sa \in {<<>>, <<1>>}, ca \in {<<>>, <<MaxTime>>}, l \in RunnerLabelLists :
                \E k \in 0..MaxCollectSteps : \E f \in [1..k -> MetricStepTimes] :
                    jobs = [JobList(<<MetricJob(sa, ca, RawStepsTimed(f))>>)
                                EXCEPT ![1].labels = l]
          /\ env \in MetricEnvs
          /\ repo \in {<<>>, <<0>>, <<1>>}
          /\ artifacts = NoArtifacts
       \/ /\ jobs = JobList(<<MetricJob(<<1>>, <<MaxTime>>, <<>>)>>)
          /\ env = [GITHUB_JOB |-> BaseName, RUNNER_NAME |-> "r1", RUNNER_OS |-> "Linux"]
          /\ repo = <<1>>
          /\ \/ artifacts = ArtifactsFailure
             \/ \E k \in 0..MaxArtifacts : \E a \in [1..k -> RawArtifactSpace] :
                    artifacts = [ok |-> TRUE, artifacts |-> a]
    /\ now = <<MaxTime, MaxTime>>
    /\ pc = "recordMetrics"
    /\ inputs = Idle /\ locals = Idle
    /\ out = Idle
    /\ argConclusion = Idle /\ argSteps = Idle
    /\ leg = Idle /\ resolved = Idle /\ clock = Idle

\* the record the post-action hands to recordMetrics
postMetrics(jobList, environment, repoResponse, nowPair, artifactsResponse) ==
    attachArtifacts(collectMetrics(jobList, environment, repoResponse, nowPair).value,
                    collectArtifacts(artifactsResponse))

RunRecordMetrics ==
    /\ pc = "recordMetrics"
    /\ LET metrics == postMetrics(jobs, env, repo, now, artifacts)
       IN  out' = [metrics |-> metrics, samples |-> recordMetrics(metrics, MetricPrefix)]
    /\ pc' = "recorded"
    /\ UNCHANGED <<inputs, locals, artifacts, jobs, env, now, repo, argConclusion, argSteps, leg,
                   resolved, clock>>

SpecMetrics == InitMetrics /\ [][RunRecordMetrics]_vars

----------------------------------------------------------------------------
(* SpecTraces: the post-action's trace path.  collectMetrics builds the    *)
(* record of one job and recordTraces emits its spans.                     *)

\* the steps of the traced job: conclusion and timestamps
TraceStepSpace ==
    [conclusion : {NullStr, "success", "failure"},
     started_at : {<<>>, <<1>>},
     completed_at : {<<>>, <<MaxTime>>, MalformedDate}]

TraceSteps(f) ==
    [i \in 1..Len(f) |-> RawStep(i, f[i].conclusion, f[i].started_at, f[i].completed_at)]

InitTraces ==
    /\ \E c \in {NullStr, "success", "failure", "cancelled"}, ca \in {<<>>, <<MaxTime>>} :
           \E k \in 0..MaxCollectSteps : \E f \in [1..k -> TraceStepSpace] :
               jobs = JobList(<<[kind |-> "exact", status |-> "in_progress",
                                 conclusion |-> c, started_at |-> <<1>>,
                                 completed_at |-> ca, runner_name |-> "r1",
                                 steps |-> TraceSteps(f)]>>)
    /\ env = [GITHUB_JOB |-> BaseName, RUNNER_NAME |-> "r1", RUNNER_OS |-> "Linux"]
    /\ repo = <<1>>
    /\ artifacts = NoArtifacts
    /\ now = <<MaxTime, MaxTime>>
    /\ pc = "recordTraces"
    /\ inputs = Idle /\ locals = Idle
    /\ out = Idle
    /\ argConclusion = Idle /\ argSteps = Idle
    /\ leg = Idle /\ resolved = Idle /\ clock = Idle

RunRecordTraces ==
    /\ pc = "recordTraces"
    /\ LET metrics == postMetrics(jobs, env, repo, now, artifacts)
       IN  out' = [metrics |-> metrics, ops |-> recordTraces(metrics)]
    /\ pc' = "traced"
    /\ UNCHANGED <<inputs, locals, artifacts, jobs, env, now, repo, argConclusion, argSteps, leg,
                   resolved, clock>>

SpecTraces == InitTraces /\ [][RunRecordTraces]_vars

----------------------------------------------------------------------------
(* SpecTiming: collectMetrics on one job whose started_at and completed_at *)
(* are each missing or any instant, read at any current instant            *)

\* the first and the second new Date() of one call: the clock does not go back
NowPairs == { <<a, b>> : a \in 1..(MaxTime + 1), b \in 1..(MaxTime + 1) } \ 
            { <<a, b>> \in (1..(MaxTime + 1)) \X (1..(MaxTime + 1)) : b < a }

InitTiming ==
    /\ \E c \in {NullStr, "success", "cancelled"}, sa \in Times, ca \in Times :
           jobs = JobList(<<[kind |-> "exact",
                             status |-> IF c = NullStr THEN "in_progress" ELSE "completed",
                             conclusion |-> c, started_at |-> sa, completed_at |-> ca,
                             runner_name |-> "r1", steps |-> <<>>]>>)
    /\ env = [GITHUB_JOB |-> BaseName, RUNNER_NAME |-> "r1", RUNNER_OS |-> "Linux"]
    /\ repo = <<1>>
    /\ now \in NowPairs
    /\ pc = "collectMetrics"
    /\ inputs = Idle /\ locals = Idle
    /\ out = Idle /\ artifacts = Idle
    /\ argConclusion = Idle /\ argSteps = Idle
    /\ leg = Idle /\ resolved = Idle /\ clock = Idle

SpecTiming == InitTiming /\ [][RunCollectMetrics]_vars

----------------------------------------------------------------------------
(* SpecConfig: getConfig for every combination of inputs, repository and   *)
(* collaborator answers                                                    *)

\* what repos.get answers for a repository of the given visibility: the
\* visibility field, only the older private flag, or an error
RepoResponse(visibility, kind) ==
    CASE kind = "visibility" ->
             [ok |-> TRUE, visibility |-> visibility, private |-> visibility # "public"]
      [] kind = "private-flag" ->
             [ok |-> TRUE, visibility |-> UndefStr, private |-> visibility # "public"]
      [] OTHER -> [ok |-> FALSE, visibility |-> UndefStr, private |-> FALSE]

ConfigInputs ==
    { [keyFile |-> kf, token |-> tk, visibility |-> v,
       repoResponse |-> RepoResponse(v, kind), keyReadable |-> kr,
       keyContent |-> kc, projectInput |-> pi, detectedProject |-> dp,
       permissions |-> pm, metricPrefix |-> "", failOnError |-> fe] :
      kf \in {"", "key.json"}, tk \in {"", "token"},
      v \in {"public", "private", "internal"},
      kind \in {"visibility", "private-flag", "error"},
      kr \in BOOLEAN, kc \in {"key-json", "not-json"},
      pi \in {"", "input-project"}, dp \in {NullStr, "env-project"},
      pm \in {"minimal", "excessive", "unknown"}, fe \in BOOLEAN }

InitConfig ==
    /\ inputs \in ConfigInputs
    /\ pc = "getConfig"
    /\ locals = Idle
    /\ out = Idle /\ artifacts = Idle
    /\ jobs = Idle /\ env = Idle /\ now = Idle /\ repo = Idle
    /\ argConclusion = Idle /\ argSteps = Idle
    /\ leg = Idle /\ resolved = Idle /\ clock = Idle

RunGetConfig ==
    /\ pc = "getConfig"
    /\ out' = getConfig(inputs)
    /\ pc' = "configured"
    /\ UNCHANGED <<inputs, locals, artifacts, jobs, env, now, repo, argConclusion,
                   argSteps, leg, resolved, clock>>

SpecConfig == InitConfig /\ [][RunGetConfig]_vars

----------------------------------------------------------------------------
(* SpecWorkflow: the workflow name for every context: context.workflow set *)
(* or not, and a workflow reference owner/repo/<path>@<ref> put together   *)
(* from a path and a ref, or a reference that has not that form            *)

\* the sequences over the characters chars of length lo..hi
Strings(chars, lo, hi) == UNION { [1..n -> chars] : n \in lo..hi }

\* owner/repo/<path>@<ref>
WorkflowRef(path, ref) == <<"o", "/", "r", "/">> \o path \o <<"@">> \o ref

\* references that do not have the form: empty, no slash, no path, no "@",
\* no owner
OtherRefs ==
    { <<>>, <<"x">>, <<"o", "/", "r">>, <<"o", "/", "r", "/", "p">>,
      <<"/", "r", "/", "p", "@", "h">> }

WorkflowContexts ==
    { [workflow |-> w, workflow_ref |-> WorkflowRef(path, ref),
       form |-> TRUE, path |-> path, ref |-> ref] :
      w \in {<<>>, <<"C", "I">>},
      path \in Strings({"p", "/", "@"}, 1, MaxPartLen),
      ref \in Strings({"h", "/", "@"}, 0, MaxPartLen) }
    \cup
    { [workflow |-> w, workflow_ref |-> r, form |-> FALSE, path |-> <<>>, ref |-> <<>>] :
      w \in {<<>>, <<"C", "I">>}, r \in OtherRefs }

InitWorkflow ==
    /\ inputs \in WorkflowContexts
    /\ pc = "workflowName"
    /\ locals = Idle
    /\ out = Idle /\ artifacts = Idle
    /\ jobs = Idle /\ env = Idle /\ now = Idle /\ repo = Idle
    /\ argConclusion = Idle /\ argSteps = Idle
    /\ leg = Idle /\ resolved = Idle /\ clock = Idle

RunWorkflowName ==
    /\ pc = "workflowName"
    /\ out' = workflowName(inputs)
    /\ pc' = "named"
    /\ UNCHANGED <<inputs, locals, artifacts, jobs, env, now, repo, argConclusion,
                   argSteps, leg, resolved, clock>>

SpecWorkflow == InitWorkflow /\ [][RunWorkflowName]_vars

----------------------------------------------------------------------------
(* SpecRun: the post-action run(), one action per call it makes.  A call   *)
(* that throws inside the try block sends run() to its catch block.  The   *)
(* log in out records every call with the block it was made from and       *)
(* whether it returned, and the messages run() reports at its end.         *)

\* one entry of the log
Event(call, block, ok) == [call |-> call, block |-> block, ok |-> ok]

\* mutant of afterCall: an error of shutdownTracer is swallowed
afterCallSwallowed(ok, next) ==
    IF ok \/ next = "run.success" THEN next ELSE "catch.shutdown"

\* where run() goes after a call of the try block: on, or to the catch block
afterCall(ok, next) == IF ok THEN next ELSE "catch.shutdown"

\* mutant of jobsAfterFindCurrentJob: the job list itself is sorted
jobsSortedInPlace(jobList) == sortByStart(jobList)

\* the job list after findCurrentJob: filter() builds a new array and sort()
\* works on that array, the list passed in is not written
jobsAfterFindCurrentJob(jobList) == jobList

\* the record after recordMetrics / recordTraces: both only read it
metricsAfterRecordMetrics(metrics) == metrics
metricsAfterRecordTraces(metrics) == metrics

\* mutant of catchShutdownDue: the catch block shuts nothing down
catchShutdownNever(provider) == FALSE

\* if (meterProvider) / if (tracerProvider) of the catch block
catchShutdownDue(provider) == provider

\* const metrics before collectMetrics has returned
NoMetrics == [collected |-> FALSE]

\* the inputs of one run: a project given or not, a token given or not
RunInputs ==
    { in \in ConfigInputs :
        /\ in.keyFile = "" /\ in.visibility = "private"
        /\ in.repoResponse = RepoResponse("private", "visibility")
        /\ in.keyReadable /\ in.keyContent = "key-json"
        /\ in.detectedProject = NullStr /\ in.permissions = "minimal" }

\* the job lists of one run: none, the running job alone, two legs that the
\* API lists without runner and oldest first
RunJobLists ==
    { <<>>,
      JobList(<<MetricJob(<<1>>, <<>>, TraceSteps(<<[conclusion |-> "failure",
                    started_at |-> <<1>>, completed_at |-> <<MaxTime>>]>>))>>),
      JobList(<<[QueuedLeg EXCEPT !.started_at = <<1>>],
                [QueuedLeg EXCEPT !.started_at = <<MaxTime>>]>>) }

InitRun ==
    /\ inputs \in RunInputs
    /\ jobs \in RunJobLists
    /\ env = [GITHUB_JOB |-> BaseName, RUNNER_NAME |-> UndefStr, RUNNER_OS |-> "Linux"]
    /\ repo = <<1>>
    /\ now = <<MaxTime, MaxTime>>
    /\ artifacts \in {ArtifactsFailure,
                       [ok |-> TRUE,
                        artifacts |-> <<[name |-> "a1", size_in_bytes |-> MaxBytes,
                                         expired |-> FALSE]>>]}
    /\ locals = [meterProvider |-> FALSE, tracerProvider |-> FALSE,
                 config |-> NoConfig, metrics |-> NoMetrics]
    /\ pc = "run.getConfig"
    /\ out = [log |-> <<>>, samples |-> <<>>, ops |-> <<>>]
    /\ argConclusion = Idle /\ argSteps = Idle
    /\ leg = Idle /\ resolved = Idle /\ clock = Idle

\* what no call of run() writes
RunFrame ==
    UNCHANGED <<env, now, repo, argConclusion, argSteps, leg, resolved, clock,
                artifacts, inputs>>

\* const config = await getConfig()
StepGetConfig ==
    /\ pc = "run.getConfig"
    /\ LET c == getConfig(inputs)
       IN  /\ locals' = [locals EXCEPT !.config = c.config]
           /\ out' = [out EXCEPT !.log = Append(@, Event("getConfig", "try", c.ok))]
           /\ pc' = afterCall(c.ok, "run.getInput")
    /\ UNCHANGED jobs /\ RunFrame

\* core.getInput('github-token', {required: true}) throws on an empty input
StepGetInput ==
    /\ pc = "run.getInput"
    /\ out' = [out EXCEPT !.log = Append(@, Event("getInput", "try", Truthy(inputs.token)))]
    /\ pc' = afterCall(Truthy(inputs.token), "run.collectMetrics")
    /\ UNCHANGED <<jobs, locals>> /\ RunFrame

\* const metrics = await collectMetrics(octokit, context): the API call may
\* fail, and so may findCurrentJob
StepCollectMetrics ==
    /\ pc = "run.collectMetrics"
    /\ \E apiOk \in BOOLEAN :
           LET r == collectMetrics(jobs, env, repo, now)
               ok == apiOk /\ r.ok
           IN  /\ locals' = [locals EXCEPT !.metrics = IF ok THEN r.value ELSE @]
               /\ jobs' = IF apiOk THEN jobsAfterFindCurrentJob(jobs) ELSE jobs
               /\ out' = [out EXCEPT !.log = Append(@, Event("collectMetrics", "try", ok))]
               /\ pc' = afterCall(ok, "run.collectArtifacts")
    /\ RunFrame

\* collectArtifacts (it catches its own errors) and the summary attached
StepCollectArtifacts ==
    /\ pc = "run.collectArtifacts"
    /\ locals' = [locals EXCEPT
                      !.metrics = attachArtifacts(@, collectArtifacts(artifacts))]
    /\ out' = [out EXCEPT !.log = Append(@, Event("collectArtifacts", "try", TRUE))]
    /\ pc' = "run.createMeterProvider"
    /\ UNCHANGED jobs /\ RunFrame

\* meterProvider = createMeterProvider(config).meterProvider
StepCreateMeterProvider ==
    /\ pc = "run.createMeterProvider"
    /\ \E ok \in BOOLEAN :
           /\ locals' = [locals EXCEPT !.meterProvider = ok]
           /\ out' = [out EXCEPT !.log = Append(@, Event("createMeterProvider", "try", ok))]
           /\ pc' = afterCall(ok, "run.createTracerProvider")
    /\ UNCHANGED jobs /\ RunFrame

\* tracerProvider = createTracerProvider(config).tracerProvider
StepCreateTracerProvider ==
    /\ pc = "run.createTracerProvider"
    /\ \E ok \in BOOLEAN :
           /\ locals' = [locals EXCEPT !.tracerProvider = ok]
           /\ out' = [out EXCEPT !.log = Append(@, Event("createTracerProvider", "try", ok))]
           /\ pc' = afterCall(ok, "run.recordMetrics")
    /\ UNCHANGED jobs /\ RunFrame

\* recordMetrics(meter, metrics, config.metricPrefix); the meter may throw
StepRecordMetrics ==
    /\ pc = "run.recordMetrics"
    /\ \E ok \in BOOLEAN :
           /\ out' = [out EXCEPT
                          !.log = Append(@, Event("recordMetrics", "try", ok)),
                          !.samples = IF ok
                                      THEN recordMetrics(locals.metrics,
                                                         locals.config.metricPrefix)
                                      ELSE @]
           /\ pc' = afterCall(ok, "run.recordTraces")
    /\ locals' = [locals EXCEPT !.metrics = metricsAfterRecordMetrics(@)]
    /\ UNCHANGED jobs /\ RunFrame

\* recordTraces(tracer, metrics); the tracer may throw
StepRecordTraces ==
    /\ pc = "run.recordTraces"
    /\ \E ok \in BOOLEAN :
           /\ out' = [out EXCEPT
                          !.log = Append(@, Event("recordTraces", "try", ok)),
                          !.ops = IF ok THEN recordTraces(locals.metrics) ELSE @]
           /\ pc' = afterCall(ok, "run.shutdown")
    /\ locals' = [locals EXCEPT !.metrics = metricsAfterRecordTraces(@)]
    /\ UNCHANGED jobs /\ RunFrame

\* await shutdown(meterProvider): forceFlush and shutdown, an error rethrown
StepShutdown ==
    /\ pc = "run.shutdown"
    /\ \E ok \in BOOLEAN :
           /\ out' = [out EXCEPT !.log = Append(@, Event("shutdown", "try", ok))]
           /\ pc' = afterCall(ok, "run.shutdownTracer")
    /\ UNCHANGED <<jobs, locals>> /\ RunFrame

\* await shutdownTracer(tracerProvider)
StepShutdownTracer ==
    /\ pc = "run.shutdownTracer"
    /\ \E ok \in BOOLEAN :
           /\ out' = [out EXCEPT !.log = Append(@, Event("shutdownTracer", "try", ok))]
           /\ pc' = afterCall(ok, "run.success")
    /\ UNCHANGED <<jobs, locals>> /\ RunFrame

\* core.info('... successfully exported to Google Cloud')
StepSuccess ==
    /\ pc = "run.success"
    /\ out' = [out EXCEPT !.log = Append(@, Event("success", "try", TRUE))]
    /\ pc' = "run.done"
    /\ UNCHANGED <<jobs, locals>> /\ RunFrame

\* catch: if (meterProvider) try { await shutdown(meterProvider) } catch {}
CatchShutdown ==
    /\ pc = "catch.shutdown"
    /\ IF catchShutdownDue(locals.meterProvider)
       THEN \E ok \in BOOLEAN :
                out' = [out EXCEPT !.log = Append(@, Event("shutdown", "catch", ok))]
       ELSE out' = out
    /\ pc' = "catch.shutdownTracer"
    /\ UNCHANGED <<jobs, locals>> /\ RunFrame

\* catch: if (tracerProvider) try { await shutdownTracer(...) } catch {}
CatchShutdownTracer ==
    /\ pc = "catch.shutdownTracer"
    /\ IF catchShutdownDue(locals.tracerProvider)
       THEN \E ok \in BOOLEAN :
                out' = [out EXCEPT !.log = Append(@, Event("shutdownTracer", "catch", ok))]
       ELSE out' = out
    /\ pc' = "catch.warning"
    /\ UNCHANGED <<jobs, locals>> /\ RunFrame

\* core.warning('Observability export failed, but workflow will continue')
CatchWarning ==
    /\ pc = "catch.warning"
    /\ out' = [out EXCEPT !.log = Append(@, Event("warning", "catch", TRUE))]
    /\ pc' = "run.done"
    /\ UNCHANGED <<jobs, locals>> /\ RunFrame

NextRun ==
    \/ StepGetConfig \/ StepGetInput \/ StepCollectMetrics \/ StepCollectArtifacts
    \/ StepCreateMeterProvider \/ StepCreateTracerProvider
    \/ StepRecordMetrics \/ StepRecordTraces
    \/ StepShutdown \/ StepShutdownTracer \/ StepSuccess
    \/ CatchShutdown \/ CatchShutdownTracer \/ CatchWarning

SpecRun == InitRun /\ [][NextRun]_vars

\* every call of run() is awaited and returns or throws
SpecRunFair == SpecRun /\ WF_vars(NextRun)

----------------------------------------------------------------------------
(* The whole model                                                         *)

Init ==
    \/ InitResolve \/ InitInfer \/ InitCollect \/ InitMatrix
    \/ InitSteps \/ InitMetrics \/ InitTraces \/ InitTiming
    \/ InitConfig \/ InitWorkflow \/ InitRun

Next ==
    \/ RunFindCurrentJob
    \/ RunInferJobConclusion
    \/ RunCollectMetrics
    \/ NextMatrix
    \/ RunParseSteps
    \/ RunRecordMetrics
    \/ RunRecordTraces
    \/ RunGetConfig
    \/ RunWorkflowName
    \/ NextRun

Spec == Init /\ [][Next]_vars

----------------------------------------------------------------------------
(* Properties of findCurrentJob (SpecResolve)                              *)

Min(S) == CHOOSE x \in S : \A y \in S : x <= y

\* positions of the jobs named exactly GITHUB_JOB
ExactIdx == {i \in DOMAIN jobs : jobs[i].name = env.GITHUB_JOB}

\* positions of the jobs named "<base> (<param>)"
LegIdx == {i \in DOMAIN jobs : \E k \in DOMAIN LegNames : jobs[i].name = LegNames[k]}

\* positions of the legs whose runner_name is the invoking job's RUNNER_NAME
RunnerIdx == {i \in LegIdx : jobs[i].runner_name = env.RUNNER_NAME}

\* C1: with no exact match, two or more legs and a leg whose runner_name is
\* RUNNER_NAME, the resolver returns a leg with that runner_name (the first
\* of them in the list), whatever the statuses, start times and positions.
C1_RunnerMatchWins ==
    (pc = "found" /\ ExactIdx = {} /\ Cardinality(LegIdx) >= 2 /\ RunnerIdx # {})
        => /\ out.ok
           /\ out.value.runner_name = env.RUNNER_NAME
           /\ out.value = jobs[Min(RunnerIdx)]

\* C1 witness: the matching leg is second, queued and started earlier, the
\* other leg is in_progress and started later; the matching leg is returned.
C1_Witness ==
    /\ pc = "found" /\ Len(jobs) = 2 /\ LegIdx = {1, 2}
    /\ jobs[1].status = "in_progress" /\ jobs[1].started_at = <<2>>
    /\ jobs[1].runner_name = "r1"
    /\ jobs[2].status = "queued" /\ jobs[2].started_at = <<1>>
    /\ jobs[2].runner_name = "r2"
    /\ env.RUNNER_NAME = "r2"
    /\ out.ok /\ out.value.id = 2

\* C3: whenever some job is named exactly GITHUB_JOB, the first such job is
\* returned, whatever legs exist beside it.
C3_ExactMatchWins ==
    (pc = "found" /\ ExactIdx # {})
        => /\ out.ok
           /\ out.value.name = env.GITHUB_JOB
           /\ out.value = jobs[Min(ExactIdx)]

\* C3 witness: a leg that is in_progress on the invoking runner comes first
\* and the exactly named job second; the exactly named job is returned.
C3_Witness ==
    /\ pc = "found" /\ Len(jobs) = 2
    /\ LegIdx = {1} /\ ExactIdx = {2}
    /\ jobs[1].status = "in_progress" /\ jobs[1].runner_name = env.RUNNER_NAME
    /\ out.ok /\ out.value.id = 2

\* C5: on a non-empty list with no exact match and no leg, the first job of
\* the list is returned and nothing is thrown.
C5_FallbackFirstJob ==
    (pc = "found" /\ Len(jobs) > 0 /\ ExactIdx = {} /\ LegIdx = {})
        => (out.ok /\ out.value = jobs[1])

\* C5 witness: two jobs, neither matching; the first is returned.
C5_Witness ==
    /\ pc = "found" /\ Len(jobs) = 2 /\ ExactIdx = {} /\ LegIdx = {}
    /\ jobs[1].status # jobs[2].status
    /\ out.ok /\ out.value.id = 1

----------------------------------------------------------------------------
(* Properties of the matrix run (SpecMatrix)                               *)

\* C2: every exporter instance resolves the job of its own leg, at any
\* moment of the run.
C2_EachLegResolvesItself ==
    pc = "matrix" =>
        \A l \in Legs :
            leg[l].phase \in {"exported", "done"} => resolved[l] = jobs[l].id

----------------------------------------------------------------------------
(* Properties of inferJobConclusion (SpecInfer)                            *)

StepHas(c) == \E i \in DOMAIN argSteps : argSteps[i].conclusion = c

RawAbsent == argConclusion \in {NullStr, "unknown"}

\* C6: with the raw conclusion absent or "unknown", a single failed step
\* makes the result "failure", whatever the other steps and their order.
C6_FailureDominates ==
    (pc = "inferred" /\ RawAbsent /\ StepHas("failure")) => out = "failure"

\* C6 witness: a cancelled and an unrecognized step precede the failed one.
C6_Witness ==
    /\ pc = "inferred" /\ argConclusion = NullStr /\ Len(argSteps) = 3
    /\ argSteps[1].conclusion = "cancelled"
    /\ argSteps[2].conclusion = "neutral"
    /\ argSteps[3].conclusion = "failure"
    /\ out = "failure"

\* C7: with the raw conclusion absent or "unknown" and no failed step, a
\* single cancelled step makes the result "cancelled".
C7_CancelledDominates ==
    (pc = "inferred" /\ RawAbsent /\ ~StepHas("failure") /\ StepHas("cancelled"))
        => out = "cancelled"

\* C7 witness: a successful and an unrecognized step precede the cancelled one.
C7_Witness ==
    /\ pc = "inferred" /\ argConclusion = "unknown" /\ Len(argSteps) = 3
    /\ argSteps[1].conclusion = "success"
    /\ argSteps[2].conclusion = "neutral"
    /\ argSteps[3].conclusion = "cancelled"
    /\ out = "cancelled"

\* C8: with the raw conclusion absent or "unknown" and no failed or
\* cancelled step, the result is "success" exactly when some step has a
\* non-null conclusion and every such step is "success" or "skipped", and
\* "unknown" otherwise.
C8_SuccessOrUnknown ==
    (pc = "inferred" /\ RawAbsent /\ ~StepHas("failure") /\ ~StepHas("cancelled"))
        => LET concluded == {i \in DOMAIN argSteps : argSteps[i].conclusion # NullStr}
               allGood == /\ concluded # {}
                          /\ \A i \in concluded :
                                 argSteps[i].conclusion \in {"success", "skipped"}
           IN  out = IF allGood THEN "success" ELSE "unknown"

\* C8 witness: no step has a conclusion yet; the result is "unknown".
C8_Witness ==
    /\ pc = "inferred" /\ argConclusion = NullStr /\ Len(argSteps) = 2
    /\ \A i \in DOMAIN argSteps : argSteps[i].conclusion = NullStr
    /\ out = "unknown"

\* C9: a raw conclusion that is present and not "unknown" is returned
\* unchanged for every step list, and inferring again from the result with
\* the same steps gives the same value.
C9_RawConclusionKept ==
    (pc = "inferred" /\ ~RawAbsent)
        => (out = argConclusion /\ inferJobConclusion(out, argSteps) = out)

\* C9 witness: the raw conclusion is "success" although a step failed.
C9_Witness ==
    /\ pc = "inferred" /\ argConclusion = "success"
    /\ StepHas("failure") /\ StepHas("cancelled")
    /\ out = "success"

----------------------------------------------------------------------------
(* Properties of collectMetrics (SpecCollect)                              *)

\* C4: on an empty job list collectMetrics rejects with the Error
\* 'No jobs found for this workflow run', for every base name and runner.
C4_EmptyListFails ==
    (pc = "collected" /\ Len(jobs) = 0)
        => (~out.ok /\ out.error = "No jobs found for this workflow run")

\* C4 witness: the list is empty and the call has rejected.
C4_Witness ==
    /\ pc = "collected" /\ Len(jobs) = 0
    /\ env.GITHUB_JOB = OtherName /\ env.RUNNER_NAME = "r1"
    /\ ~out.ok

\* the raw job the record was built from
SourceJob == jobs[out.value.job.id]

InferredConclusions == {"success", "failure", "cancelled", "unknown"}

\* C10 as stated: the record's job.conclusion is always one of success,
\* failure, cancelled, unknown.
C10_ConclusionInFourValues ==
    (pc = "collected" /\ out.ok) => out.value.job.conclusion \in InferredConclusions

\* C10 as amended: the record's job.conclusion is never null; it is the raw
\* conclusion of the job when that is present and not "unknown", and one of
\* success, failure, cancelled, unknown otherwise.
C10_ConclusionNeverNull ==
    (pc = "collected" /\ out.ok)
        => /\ out.value.job.conclusion \notin {NullStr, UndefStr}
           /\ IF SourceJob.conclusion \in {NullStr, "unknown"}
              THEN out.value.job.conclusion \in InferredConclusions
              ELSE out.value.job.conclusion = SourceJob.conclusion

\* C10 witness: a job still running (null conclusion) whose steps have no
\* conclusion yet; the record says "unknown".
C10_Witness ==
    /\ pc = "collected" /\ out.ok
    /\ SourceJob.conclusion = NullStr
    /\ Len(SourceJob.steps) = 2
    /\ \A i \in DOMAIN SourceJob.steps : SourceJob.steps[i].conclusion = NullStr
    /\ out.value.job.conclusion = "unknown"

----------------------------------------------------------------------------
(* Properties of parseSteps (SpecSteps)                                    *)

Max(a, b) == IF a >= b THEN a ELSE b

\* C11: a normalised step's durationMs is max(0, completedAt - startedAt)
\* when both timestamps are present and 0 when either is missing; it is
\* never negative, whichever of the two timestamps is the earlier.
C11_DurationClampedAtZero ==
    pc = "parsed" =>
        \A i \in DOMAIN out :
            LET raw == argSteps[i]
            IN  (raw.started_at # MalformedDate /\ raw.completed_at # MalformedDate)
                    => /\ out[i].durationMs >= 0
                       /\ out[i].durationMs =
                              IF Present(raw.started_at) /\ Present(raw.completed_at)
                              THEN Max(0, TimeOf(raw.completed_at) - TimeOf(raw.started_at))
                              ELSE 0

\* C12: a malformed date string is treated as absent: the normalised
\* timestamp is null and the step's durationMs is the integer 0.
C12_MalformedDateIsAbsent ==
    pc = "parsed" =>
        \A i \in DOMAIN out :
            LET raw == argSteps[i]
            IN  /\ raw.started_at = MalformedDate => out[i].startedAt = <<>>
                /\ raw.completed_at = MalformedDate => out[i].completedAt = <<>>
                /\ (raw.started_at = MalformedDate \/ raw.completed_at = MalformedDate)
                       => out[i].durationMs = 0

----------------------------------------------------------------------------
(* Properties of the job timing (SpecCollect)                              *)

\* C13: in every record collectMetrics returns, job.startedAt and
\* job.completedAt are instants (never null): the raw value when the API
\* gives one, the current instant when it is missing; and job.durationMs is
\* job.completedAt - job.startedAt of the stored values.
C13_JobTimesFilled ==
    (pc = "collected" /\ out.ok) =>
        LET j == out.value.job
        IN  /\ j.startedAt = IF Present(SourceJob.started_at)
                             THEN TimeOf(SourceJob.started_at) ELSE now[1]
            /\ j.completedAt = IF Present(SourceJob.completed_at)
                               THEN TimeOf(SourceJob.completed_at) ELSE now[2]
            /\ j.startedAt \in 1..(MaxTime + 1) /\ j.completedAt \in 1..(MaxTime + 1)
            /\ j.durationMs = j.completedAt - j.startedAt

\* C13 witness: a running job (started, no completed_at) read at an instant
\* after its start; completedAt is the current instant.
C13_Witness ==
    /\ pc = "collected" /\ out.ok
    /\ SourceJob.started_at = <<1>> /\ SourceJob.completed_at = <<>>
    /\ now = <<MaxTime, MaxTime + 1>>
    /\ out.value.job.startedAt = 1
    /\ out.value.job.completedAt = MaxTime + 1
    /\ out.value.job.durationMs = MaxTime

----------------------------------------------------------------------------
(* Properties of recordMetrics (SpecMetrics)                               *)

\* the samples recorded on one instrument, in the order they were recorded
SamplesOf(instrument) ==
    LET On(x) == x.name = <<MetricPrefix, instrument>>
    IN  SelectSeq(out.samples, On)

\* C14: each recordMetrics call records exactly one sample on
\* <prefix>.job.duration, and its value is the record's job.durationMs,
\* also when that is 0 or an estimate made from the current instant.
C14_OneJobDurationSample ==
    pc = "recorded" =>
        /\ Len(SamplesOf("job.duration")) = 1
        /\ SamplesOf("job.duration")[1].value = out.metrics.job.durationMs

\* C14 witness: a job with neither timestamp, both estimated by the current
\* instant, so that durationMs is 0; the one sample has the value 0.
C14_Witness ==
    /\ pc = "recorded"
    /\ jobs[1].started_at = <<>> /\ jobs[1].completed_at = <<>>
    /\ out.metrics.job.durationMs = 0
    /\ Len(SamplesOf("job.duration")) = 1
    /\ SamplesOf("job.duration")[1].value = 0

\* the steps of the record whose duration is positive, in order
PositiveSteps ==
    LET Pos(st) == st.durationMs >= 1
    IN  SelectSeq(out.metrics.steps, Pos)

\* C15: the samples on <prefix>.step.duration are, in order, one per step of
\* the record with durationMs > 0, with that step's durationMs as value; a
\* step with durationMs 0 gets none.
C15_OneSamplePerPositiveStep ==
    pc = "recorded" =>
        /\ Len(SamplesOf("step.duration")) = Len(PositiveSteps)
        /\ \A i \in 1..Len(PositiveSteps) :
               /\ SamplesOf("step.duration")[i].value = PositiveSteps[i].durationMs
               /\ SamplesOf("step.duration")[i].attributes.stepNumber
                      = PositiveSteps[i].number

\* C15 witness: a first step of duration 0 and a second of positive duration;
\* the only sample is the second step's.
C15_Witness ==
    /\ pc = "recorded"
    /\ Len(out.metrics.steps) = 2
    /\ out.metrics.steps[1].startedAt = <<1>> /\ out.metrics.steps[1].completedAt = <<1>>
    /\ out.metrics.steps[1].durationMs = 0
    /\ out.metrics.steps[2].durationMs = MaxTime - 1
    /\ Len(SamplesOf("step.duration")) = 1
    /\ SamplesOf("step.duration")[1].attributes.stepNumber = 2

\* C16: when the record has an artifact summary, the samples on
\* <prefix>.artifact.size are as many as the summary's count, one per
\* artifact in list order, with its sizeBytes as value and its name as tag;
\* when the run lists no artifact (or the listing fails) the record has no
\* artifacts field and no artifact-size sample is recorded.
C16_OneSamplePerArtifact ==
    pc = "recorded" =>
        /\ (~artifacts.ok \/ Len(artifacts.artifacts) = 0)
               => "artifacts" \notin DOMAIN out.metrics
        /\ IF "artifacts" \in DOMAIN out.metrics
           THEN /\ Len(SamplesOf("artifact.size")) = out.metrics.artifacts.count
                /\ \A i \in 1..Len(out.metrics.artifacts.artifacts) :
                       /\ SamplesOf("artifact.size")[i].value
                              = out.metrics.artifacts.artifacts[i].sizeBytes
                       /\ SamplesOf("artifact.size")[i].attributes.artifactName
                              = out.metrics.artifacts.artifacts[i].name
           ELSE Len(SamplesOf("artifact.size")) = 0

\* C16 witness: the run lists a1 (0 bytes) then a2 (MaxBytes bytes); the
\* summary counts two and two samples are recorded in that order.
C16_Witness ==
    /\ pc = "recorded"
    /\ artifacts.ok /\ Len(artifacts.artifacts) = 2
    /\ artifacts.artifacts[1].name = "a1" /\ artifacts.artifacts[1].size_in_bytes = 0
    /\ artifacts.artifacts[2].name = "a2" /\ artifacts.artifacts[2].size_in_bytes = MaxBytes
    /\ out.metrics.artifacts.count = 2
    /\ Len(SamplesOf("artifact.size")) = 2
    /\ SamplesOf("artifact.size")[2].value = MaxBytes
    /\ SamplesOf("artifact.size")[2].attributes.artifactName = "a2"

\* the operating systems the price table knows
PricedOS == {"Linux", "Windows", "macOS"}

\* the runner of the record is self-hosted: its primary label says so
SelfHostedRunner ==
    /\ Len(out.metrics.runner.labels) > 0
    /\ out.metrics.runner.labels[1] = SelfHosted

\* C17: no sample is recorded on <prefix>.job.estimated_cost when the runner
\* is self-hosted or its OS is not a priced one (such as the default
\* 'unknown'): the sample is left out, not recorded with the value 0.
C17_NoCostForUnpricedRunner ==
    (pc = "recorded" /\ (out.metrics.runner.os \notin PricedOS \/ SelfHostedRunner))
        => Len(SamplesOf("job.estimated_cost")) = 0

\* C18: exactly one sample is recorded on <prefix>.repo.size, with the value
\* sizeKB, whenever the record carries a sizeKB (any size >= 0), and none
\* when sizeKB is absent.
C18_RepoSizeWheneverPresent ==
    pc = "recorded" =>
        IF Present(out.metrics.repository.sizeKB)
        THEN /\ Len(SamplesOf("repo.size")) = 1
             /\ SamplesOf("repo.size")[1].value = TimeOf(out.metrics.repository.sizeKB)
        ELSE Len(SamplesOf("repo.size")) = 0

----------------------------------------------------------------------------
(* Properties of recordTraces (SpecTraces)                                 *)

\* the positions of the operations of one kind applied to one span
OpsAt(kind, span) ==
    { n \in 1..Len(out.ops) : out.ops[n].op = kind /\ out.ops[n].span = span }

\* the step of the record at position i has both of its timestamps
StepTimed(i) ==
    /\ out.metrics.steps[i].startedAt # <<>>
    /\ out.metrics.steps[i].completedAt # <<>>

\* C19: recordTraces starts exactly one root span, and exactly one child
\* span, parented to the root span's context, for each step that has both
\* startedAt and completedAt; it starts no span for a step lacking either,
\* so the child spans are as many as the steps with both timestamps.
C19_OneChildSpanPerTimedStep ==
    pc = "traced" =>
        /\ Cardinality(OpsAt("startSpan", 0)) = 1
        /\ \A n \in 1..Len(out.ops) :
               out.ops[n].op = "startSpan" =>
                   /\ out.ops[n].span \in 0..Len(out.metrics.steps)
                   /\ out.ops[n].parent = IF out.ops[n].span = 0
                                          THEN "active" ELSE "jobContext"
        /\ \A i \in 1..Len(out.metrics.steps) :
               Cardinality(OpsAt("startSpan", i)) = IF StepTimed(i) THEN 1 ELSE 0
        /\ Cardinality({ n \in 1..Len(out.ops) :
                            out.ops[n].op = "startSpan" /\ out.ops[n].span # 0 })
               = Cardinality({ i \in 1..Len(out.metrics.steps) : StepTimed(i) })

\* C19 witness: a first step that never completed and a second step with
\* both timestamps; the root span and one child span, the second step's.
C19_Witness ==
    /\ pc = "traced"
    /\ Len(out.metrics.steps) = 2
    /\ out.metrics.steps[1].startedAt = <<1>> /\ out.metrics.steps[1].completedAt = <<>>
    /\ out.metrics.steps[2].startedAt = <<1>>
    /\ out.metrics.steps[2].completedAt = <<MaxTime>>
    /\ Cardinality(OpsAt("startSpan", 0)) = 1
    /\ OpsAt("startSpan", 1) = {}
    /\ \E n \in OpsAt("startSpan", 2) : out.ops[n].parent = "jobContext"

\* the span has been given the error status
HasErrorStatus(span) ==
    \E n \in OpsAt("setStatus", span) : out.ops[n].code = StatusError

----------------------------------------------------------------------------
(* Properties of the fallbacks of findCurrentJob (SpecResolve)             *)

\* positions of the legs the API lists as in_progress
InProgressIdx == {i \in LegIdx : jobs[i].status = "in_progress"}

\* the start of the job at position i, a missing started_at being the epoch
StartOf(i) == IF jobs[i].started_at = <<>> THEN 0 ELSE jobs[i].started_at[1]

\* positions of the legs no other leg started after
LatestIdx == {i \in LegIdx : \A k \in LegIdx : StartOf(k) <= StartOf(i)}

\* C24: with two or more legs, no exact match and no leg matching the runner
\* (or RUNNER_NAME unset), the resolver returns the first in_progress leg in
\* list order if there is one; otherwise the leg with the most recent
\* started_at, a missing started_at counting as the oldest, and among legs
\* of equal start the one earliest in the list.
C24_InProgressThenMostRecent ==
    (/\ pc = "found" /\ ExactIdx = {} /\ Cardinality(LegIdx) >= 2
     /\ (RunnerIdx = {} \/ env.RUNNER_NAME = UndefStr))
        => /\ out.ok
           /\ out.value = IF InProgressIdx # {} THEN jobs[Min(InProgressIdx)]
                          ELSE jobs[Min(LatestIdx)]

\* C24 witness: two completed legs, the second started later, and a runner
\* name no leg carries; the second leg is returned.
C24_Witness ==
    /\ pc = "found" /\ Len(jobs) = 2 /\ LegIdx = {1, 2}
    /\ jobs[1].status = "completed" /\ jobs[1].started_at = <<1>>
    /\ jobs[2].status = "completed" /\ jobs[2].started_at = <<2>>
    /\ jobs[1].runner_name = "r1" /\ jobs[2].runner_name = NullStr
    /\ env.RUNNER_NAME = "r2"
    /\ out.ok /\ out.value.id = 2

----------------------------------------------------------------------------
(* Order of the span operations of recordTraces (SpecTraces)               *)

\* the positions of all operations applied to one span
SpanOps(span) == { n \in 1..Len(out.ops) : out.ops[n].span = span }

\* where the span is started / ended (for a span that is)
StartPos(span) == Min(OpsAt("startSpan", span))
EndPos(span) == Min(OpsAt("end", span))

----------------------------------------------------------------------------
(* Properties of the job duration (SpecTiming)                             *)

\* C30: in every record collectMetrics returns, job.durationMs is not
\* negative, whichever of the raw started_at and completed_at are present
\* and wherever they lie relative to the current instant.
C30_JobDurationNonNegative ==
    (pc = "collected" /\ out.ok) => out.value.job.durationMs >= 0

----------------------------------------------------------------------------
(* Properties of getConfig (SpecConfig)                                    *)

----------------------------------------------------------------------------
(* Properties of the workflow name (SpecWorkflow)                          *)

\* C26: the workflow name is context.workflow when that is present;
\* otherwise, for a reference owner/repo/<path>@<ref>, exactly <path>, for
\* every path and every ref; otherwise the raw reference unchanged.
C26_WorkflowNameIsPath ==
    pc = "named" =>
        out = IF inputs.workflow # <<>> THEN inputs.workflow
              ELSE IF inputs.form THEN inputs.path
              ELSE inputs.workflow_ref

----------------------------------------------------------------------------
(* Properties of the post-action run() (SpecRun, SpecRunFair)              *)

\* the positions in the log of the calls of one function
LogCalls(call) == { i \in 1..Len(out.log) : out.log[i].call = call }

Logged(call) == LogCalls(call) # {}

\* the calls of the try block that threw
TryFailures == { i \in 1..Len(out.log) : out.log[i].block = "try" /\ ~out.log[i].ok }

\* C21: when a call of run() fails, the fail-on-error input decides: with
\* it true the run is marked failed (core.setFailed), with it false run()
\* only logs the warning and the run is not marked failed.
C21_FailOnErrorDecides ==
    (pc = "run.done" /\ TryFailures # {})
        => IF inputs.failOnError
           THEN Logged("setFailed")
           ELSE Logged("warning") /\ ~Logged("setFailed")

\* C22: the success message is logged only after collectMetrics,
\* recordMetrics, recordTraces, shutdown and shutdownTracer have each
\* returned and no call has thrown; and once a call of the try block has
\* thrown, run() is in its catch block or past it, the success message is
\* not logged, and run() ends with the warning.
C22_SuccessOnlyAfterEverySinkCall ==
    /\ Logged("success")
           => /\ \A call \in {"collectMetrics", "recordMetrics", "recordTraces",
                               "shutdown", "shutdownTracer"} :
                     \E i \in LogCalls(call) : out.log[i] = Event(call, "try", TRUE)
              /\ \A i \in 1..Len(out.log) : out.log[i].ok
    /\ TryFailures # {}
           => /\ pc \in {"catch.shutdown", "catch.shutdownTracer", "catch.warning",
                          "run.done"}
              /\ ~Logged("success")
              /\ pc = "run.done" => Logged("warning")

\* C22 witness: the tracer provider's shutdown threw after everything
\* before it had returned; run() has ended with the warning.
C22_Witness ==
    /\ pc = "run.done"
    /\ \E i \in LogCalls("shutdown") : out.log[i] = Event("shutdown", "try", TRUE)
    /\ \E i \in LogCalls("shutdownTracer") :
           out.log[i] = Event("shutdownTracer", "try", FALSE)
    /\ Logged("warning") /\ ~Logged("success")

C28_ShutdownAtMostOnce ==
    /\ Cardinality(LogCalls("shutdown")) <= 1
    /\ Cardinality(LogCalls("shutdownTracer")) <= 1

\* C29: run() always reaches its end, and at its end every provider that
\* was created has had its shutdown called, whichever call failed.
C29_CreatedProvidersAreShutDown ==
    /\ <>(pc = "run.done")
    /\ [](pc = "run.done"
             => /\ locals.meterProvider => Logged("shutdown")
                /\ locals.tracerProvider => Logged("shutdownTracer"))

\* C29 witness: both providers created, recordTraces threw, and both
\* shutdowns were called from the catch block before run() ended.
C29_Witness ==
    /\ pc = "run.done"
    /\ locals.meterProvider /\ locals.tracerProvider
    /\ \E i \in LogCalls("recordTraces") : ~out.log[i].ok
    /\ \E i \in LogCalls("shutdown") : out.log[i].block = "catch"
    /\ \E i \in LogCalls("shutdownTracer") : out.log[i].block = "catch"

====
